---- MODULE Spec2Model ----
(***************************************************************************)
(* A model of loveice26/webserver: the ThreadPool (thread_pool.cpp and     *)
(* thread_pool.hpp) and the connection driver handle_request with          *)
(* HttpRequest::parse (webserver3.cpp, HttpRequestParser).                 *)
(***************************************************************************)
EXTENDS Integers, Sequences, FiniteSets, TLC

(***************************************************************************)
(* Bounds of the model.                                                    *)
(***************************************************************************)
\* Number of worker threads given to ThreadPool::ThreadPool(size_t threads).
NumWorkers == 2
\* Number of threads that call ThreadPool::enqueue.
NumClients == 2
\* Number of enqueue calls made in one run.
MaxTasks == 3
\* Most calls of enqueue made when several callers race.
MaxRaced == 2
\* Largest Content-Length value a peer declares.
MaxDeclared == 2
\* Most body bytes a peer sends.
MaxBody == 2
\* Largest short read NetRecv returns.
MaxPartial == 3

Workers == 1..NumWorkers
Clients == 1..NumClients
TaskIds == 1..MaxTasks

\* Thread identities, used as the owner of queue_mutex.
NoOwner == <<"none", 0>>
WorkerThread(w) == <<"worker", w>>
ClientThread(c) == <<"client", c>>
DtorThread == <<"dtor", 0>>

VARIABLES
    \* ---- ThreadPool members (thread_pool.hpp) ----
    tasks,        \* std::queue<std::function<void()>> tasks, as task ids
    stop_flag,    \* bool stop_flag
    queue_mutex,  \* std::mutex queue_mutex: the thread holding it, or NoOwner
    condition,    \* std::condition_variable condition: the workers blocked in wait
    \* ---- worker threads (the lambda of ThreadPool::ThreadPool) ----
    wpc,          \* where each worker is: "start","locked","waiting","running","exited"
    wtask,        \* the local `task` of each worker (0: none)
    \* ---- threads calling enqueue ----
    cpc,          \* "idle","lock","locked","notify"
    ctask,        \* the task the call carries (0: none)
    \* ---- the thread running ~ThreadPool ----
    dpc,          \* "idle","lock","locked","notify","join","done"
    djoin,        \* index of the next worker to join
    again,        \* how a second run of ~ThreadPool ended: "none","returned","failed"
    \* ---- history of the run ----
    nextTask,     \* id the next enqueue call gets
    runs,         \* how many times each task was executed
    wfailed,      \* the workers that have run a task that raised
    accepted,     \* tasks pushed into the queue
    before,       \* before[t]: the enqueue calls that had returned when t's began
    \* ---- the connection driver (handle_request of webserver3.cpp) ----
    origin,          \* the request the peer sends
    stream,          \* its bytes on the wire
    pos,             \* how many of them NetRecv has delivered
    request_data,    \* std::string request_data
    valread,         \* ssize_t valread
    current_size,    \* size_t current_size of the last iteration
    header_received, \* bool header_received
    content_length,  \* int content_length
    hpc,             \* "none","reading","read_done","done"; "parse","parsed"
    handled,         \* the parse and the method dispatch were run
    req,             \* HttpRequest req after req.parse(request_data)
    response,        \* what was handed to send_response
    file_path,       \* std::string file_path given to read_file
    content,         \* std::string content, what read_file returned
    sent,            \* what NetSend returned in send_response (0: not called)
    closed           \* how many times client_socket was closed

poolVars == <<tasks, stop_flag, queue_mutex, condition, wpc, wtask, cpc, ctask,
              dpc, djoin, again, nextTask, runs, wfailed, accepted, before>>
driverVars == <<origin, stream, pos, request_data, valread, current_size,
                header_received, content_length, hpc, handled, req, response,
                file_path, content, sent, closed>>
vars == <<poolVars, driverVars>>

(***************************************************************************)
(* ThreadPool::ThreadPool: stop_flag(false), empty queue, N workers at the *)
(* top of their loop.                                                      *)
(***************************************************************************)
PoolInit ==
    /\ tasks = <<>>
    /\ stop_flag = FALSE
    /\ queue_mutex = NoOwner
    /\ condition = {}
    /\ wpc = [w \in Workers |-> "start"]
    /\ wtask = [w \in Workers |-> 0]
    /\ cpc = [c \in Clients |-> "idle"]
    /\ ctask = [c \in Clients |-> 0]
    /\ dpc = "idle"
    /\ djoin = 1
    /\ again = "none"
    /\ nextTask = 1
    /\ runs = [t \in TaskIds |-> 0]
    /\ wfailed = {}
    /\ accepted = {}
    /\ before = [t \in TaskIds |-> {}]

\* The process runs: no exception has left a destructor (std::terminate).
Alive == again # "failed"

(***************************************************************************)
(* The worker loop.                                                        *)
(***************************************************************************)
\* The predicate of condition.wait.
WaitPredicate == stop_flag \/ tasks # <<>>

\* Mutant of WorkerExitCondition: a stopped pool is enough to exit.
WorkerExitOnStop == stop_flag

\* The exit test after the wait.
WorkerExitCondition == stop_flag /\ tasks = <<>>

\* Mutant of WorkerLock: the worker enters without waiting for the mutex.
WorkerLockUnguarded(w) ==
    /\ wpc[w] = "start"
    /\ queue_mutex' = WorkerThread(w)
    /\ wpc' = [wpc EXCEPT ![w] = "locked"]
    /\ UNCHANGED <<again, tasks, stop_flag, condition, wtask, cpc, ctask, dpc, djoin,
                   nextTask, runs, wfailed, accepted, before>>

\* std::unique_lock<std::mutex> lock(this->queue_mutex), also the re-lock
\* that ends a wait.
WorkerLock(w) ==
    /\ wpc[w] = "start"
    /\ queue_mutex = NoOwner
    /\ queue_mutex' = WorkerThread(w)
    /\ wpc' = [wpc EXCEPT ![w] = "locked"]
    /\ UNCHANGED <<again, tasks, stop_flag, condition, wtask, cpc, ctask, dpc, djoin,
                   nextTask, runs, wfailed, accepted, before>>

\* condition.wait with a false predicate: release the mutex and block.
WorkerWait(w) ==
    /\ wpc[w] = "locked"
    /\ ~WaitPredicate
    /\ queue_mutex' = NoOwner
    /\ condition' = condition \cup {w}
    /\ wpc' = [wpc EXCEPT ![w] = "waiting"]
    /\ UNCHANGED <<again, tasks, stop_flag, wtask, cpc, ctask, dpc, djoin, nextTask,
                   runs, wfailed, accepted, before>>

\* A wait may return without a notification; the predicate is then re-tested
\* under the mutex.
SpuriousWakeup(w) ==
    /\ wpc[w] = "waiting"
    /\ condition' = condition \ {w}
    /\ wpc' = [wpc EXCEPT ![w] = "start"]
    /\ UNCHANGED <<again, tasks, stop_flag, queue_mutex, wtask, cpc, ctask, dpc, djoin,
                   nextTask, runs, wfailed, accepted, before>>

\* if (stop_flag && tasks.empty()) return;
WorkerExit(w) ==
    /\ wpc[w] = "locked"
    /\ WaitPredicate
    /\ WorkerExitCondition
    /\ queue_mutex' = NoOwner
    /\ wpc' = [wpc EXCEPT ![w] = "exited"]
    /\ UNCHANGED <<again, tasks, stop_flag, condition, wtask, cpc, ctask, dpc, djoin,
                   nextTask, runs, wfailed, accepted, before>>

\* tasks.front(): the task a worker takes.
Front(q) == Head(q)

\* Mutant of Pop: the front is read and never removed.
PopForgotten(q) == q

\* tasks.pop(): the queue without its front.
Pop(q) == Tail(q)

\* Mutant of WorkerDequeue: the lock is kept while the task runs.
WorkerDequeueHolding(w) ==
    /\ wpc[w] = "locked"
    /\ WaitPredicate
    /\ ~WorkerExitCondition
    /\ wtask' = [wtask EXCEPT ![w] = Front(tasks)]
    /\ tasks' = Pop(tasks)
    /\ wpc' = [wpc EXCEPT ![w] = "running"]
    /\ UNCHANGED <<again, stop_flag, queue_mutex, condition, cpc, ctask, dpc, djoin,
                   nextTask, runs, wfailed, accepted, before>>

\* task = std::move(tasks.front()); tasks.pop(); and the lock's scope ends.
WorkerDequeue(w) ==
    /\ wpc[w] = "locked"
    /\ WaitPredicate
    /\ ~WorkerExitCondition
    /\ wtask' = [wtask EXCEPT ![w] = Front(tasks)]
    /\ tasks' = Pop(tasks)
    /\ queue_mutex' = NoOwner
    /\ wpc' = [wpc EXCEPT ![w] = "running"]
    /\ UNCHANGED <<again, stop_flag, condition, cpc, ctask, dpc, djoin, nextTask, runs,
                   wfailed, accepted, before>>

\* Mutant of AfterTask: no try/catch, a raising task ends the thread.
AfterTaskUncaught(raised) == IF raised THEN "terminated" ELSE "start"

\* Where a worker goes after task(): raised is TRUE when the callable raised.
\* The packaged_task stores the failure in the future's shared state and the
\* try/catch of the loop catches what is left: the loop goes on either way.
AfterTask(raised) == "start"

\* try { task(); } catch ...: the task runs outside the lock.
WorkerRun(w) ==
    /\ wpc[w] = "running"
    /\ \E raised \in BOOLEAN :
        /\ runs' = [runs EXCEPT ![wtask[w]] = @ + 1]
        /\ wfailed' = IF raised THEN wfailed \cup {w} ELSE wfailed
        /\ wpc' = [wpc EXCEPT ![w] = AfterTask(raised)]
    /\ wtask' = [wtask EXCEPT ![w] = 0]
    /\ UNCHANGED <<again, tasks, stop_flag, queue_mutex, condition, cpc, ctask, dpc,
                   djoin, nextTask, accepted, before>>

(***************************************************************************)
(* ThreadPool::enqueue.                                                    *)
(***************************************************************************)
\* The tasks an enqueue call is carrying right now.
InCall == {ctask[c] : c \in Clients} \ {0}

\* The enqueue calls that have returned normally (pushed, notified, returned).
Returned == accepted \ InCall

\* The enqueue calls that ended by throwing.
Rejected == {t \in TaskIds : t < nextTask} \ (accepted \cup InCall)

\* The call begins: the packaged_task and its future are made, nothing shared
\* is touched yet.
EnqueueBegin(c) ==
    /\ Alive
    /\ cpc[c] = "idle"
    /\ nextTask <= MaxTasks
    /\ ctask' = [ctask EXCEPT ![c] = nextTask]
    /\ nextTask' = nextTask + 1
    /\ before' = [before EXCEPT ![nextTask] = Returned]
    /\ cpc' = [cpc EXCEPT ![c] = "lock"]
    /\ UNCHANGED <<again, tasks, stop_flag, queue_mutex, condition, wpc, wtask, dpc,
                   djoin, runs, wfailed, accepted>>

\* std::unique_lock<std::mutex> lock(queue_mutex);
EnqueueLock(c) ==
    /\ Alive
    /\ cpc[c] = "lock"
    /\ queue_mutex = NoOwner
    /\ queue_mutex' = ClientThread(c)
    /\ cpc' = [cpc EXCEPT ![c] = "locked"]
    /\ UNCHANGED <<again, tasks, stop_flag, condition, wpc, wtask, ctask, dpc, djoin,
                   nextTask, runs, wfailed, accepted, before>>

\* Mutant of EnqueueRefuses: the stop test is missing.
EnqueueNeverRefuses == FALSE

\* Mutant of EnqueueRefuses: the worker's exit test in place of the stop test.
EnqueueRefusesWhenDrained == stop_flag /\ tasks = <<>>

\* Mutant of EnqueueRefuses: calls are refused only once the destructor has
\* returned.
EnqueueRefusesAfterJoin == stop_flag /\ dpc = "done"

\* if (stop_flag) throw ...: whether the call is refused.
EnqueueRefuses == stop_flag

\* Mutant of Emplace: the task is put at the front.
EmplaceFront(q, t) == <<t>> \o q

\* tasks.emplace(...): the queue with t added.
Emplace(q, t) == Append(q, t)

\* The critical section of enqueue: throw on a stopped pool (the unwinding
\* releases the lock), else push and leave the block.
EnqueueCheck(c) ==
    /\ Alive
    /\ cpc[c] = "locked"
    /\ IF EnqueueRefuses
         THEN /\ cpc' = [cpc EXCEPT ![c] = "idle"]
              /\ ctask' = [ctask EXCEPT ![c] = 0]
              /\ UNCHANGED <<tasks, accepted>>
         ELSE /\ tasks' = Emplace(tasks, ctask[c])
              /\ accepted' = accepted \cup {ctask[c]}
              /\ cpc' = [cpc EXCEPT ![c] = "notify"]
              /\ UNCHANGED ctask
    /\ queue_mutex' = NoOwner
    /\ UNCHANGED <<again, stop_flag, condition, wpc, wtask, dpc, djoin, nextTask, runs,
                   wfailed, before>>

\* Mutant of EnqueueNotify: enqueue returns without notify_one.
EnqueueNotifyNobody(c) ==
    /\ Alive
    /\ cpc[c] = "notify"
    /\ cpc' = [cpc EXCEPT ![c] = "idle"]
    /\ ctask' = [ctask EXCEPT ![c] = 0]
    /\ UNCHANGED <<again, tasks, stop_flag, queue_mutex, condition, wpc, wtask, dpc,
                   djoin, nextTask, runs, wfailed, accepted, before>>

\* condition.notify_one(), after the lock is released, and return res.
EnqueueNotify(c) ==
    /\ Alive
    /\ cpc[c] = "notify"
    /\ IF condition = {}
         THEN UNCHANGED <<condition, wpc>>
         ELSE \E w \in condition :
                /\ condition' = condition \ {w}
                /\ wpc' = [wpc EXCEPT ![w] = "start"]
    /\ cpc' = [cpc EXCEPT ![c] = "idle"]
    /\ ctask' = [ctask EXCEPT ![c] = 0]
    /\ UNCHANGED <<again, tasks, stop_flag, queue_mutex, wtask, dpc, djoin, nextTask,
                   runs, wfailed, accepted, before>>

(***************************************************************************)
(* ThreadPool::~ThreadPool.                                                *)
(***************************************************************************)
\* The destructor is entered.
DtorBegin ==
    /\ dpc = "idle"
    /\ dpc' = "lock"
    /\ UNCHANGED <<again, tasks, stop_flag, queue_mutex, condition, wpc, wtask, cpc,
                   ctask, djoin, nextTask, runs, wfailed, accepted, before>>

\* std::unique_lock<std::mutex> lock(queue_mutex);
DtorLock ==
    /\ dpc = "lock"
    /\ queue_mutex = NoOwner
    /\ queue_mutex' = DtorThread
    /\ dpc' = "locked"
    /\ UNCHANGED <<again, tasks, stop_flag, condition, wpc, wtask, cpc, ctask, djoin,
                   nextTask, runs, wfailed, accepted, before>>

\* stop_flag = true; and the lock's scope ends.
DtorSetStop ==
    /\ dpc = "locked"
    /\ stop_flag' = TRUE
    /\ queue_mutex' = NoOwner
    /\ dpc' = "notify"
    /\ UNCHANGED <<again, tasks, condition, wpc, wtask, cpc, ctask, djoin, nextTask,
                   runs, wfailed, accepted, before>>

\* condition.notify_all(): the workers woken.
NotifyAllWakes == condition

\* condition.notify_all();
DtorNotifyAll ==
    /\ dpc = "notify"
    /\ condition' = condition \ NotifyAllWakes
    /\ wpc' = [w \in Workers |-> IF w \in NotifyAllWakes THEN "start" ELSE wpc[w]]
    /\ dpc' = "join"
    /\ UNCHANGED <<again, tasks, stop_flag, queue_mutex, wtask, cpc, ctask, djoin,
                   nextTask, runs, wfailed, accepted, before>>

\* Mutant of Joinable: the destructor does not wait for the worker.
JoinableAtOnce(w) == TRUE

\* worker.join() returns once that worker's thread function has returned.
Joinable(w) == wpc[w] = "exited"

\* for (auto& worker : workers) worker.join(); then the destructor returns.
DtorJoin ==
    /\ dpc = "join"
    /\ djoin <= NumWorkers
    /\ Joinable(djoin)
    /\ djoin' = djoin + 1
    /\ dpc' = IF djoin = NumWorkers THEN "done" ELSE "join"
    /\ UNCHANGED <<again, tasks, stop_flag, queue_mutex, condition, wpc, wtask, cpc,
                   ctask, nextTask, runs, wfailed, accepted, before>>

\* What running ~ThreadPool on the pool once more can end in.  Every worker
\* has been joined, so worker.join() is called on a thread that is not
\* joinable: it throws std::system_error, and an exception leaving a
\* destructor ends the process.  The first run has also ended the lifetime of
\* the pool, which makes the second run undefined: a build in which the loop
\* finds no thread to join returns.
AgainOutcomes == {"returned", "failed"}

\* ~ThreadPool run a second time, after the first has returned.  It takes
\* queue_mutex, stores true in a stop_flag that is true, notifies a condition
\* nobody waits on, and reaches the join loop.
DtorAgain ==
    /\ Alive
    /\ dpc = "done"
    /\ again = "none"
    /\ queue_mutex = NoOwner
    /\ again' \in AgainOutcomes
    /\ UNCHANGED <<tasks, stop_flag, queue_mutex, condition, wpc, wtask, cpc,
                   ctask, dpc, djoin, nextTask, runs, wfailed, accepted, before>>

(***************************************************************************)
(* Bytes and strings.  A std::string is a sequence of one-character        *)
(* strings; offsets of the code are 0-based, indices of the model 1-based. *)
(***************************************************************************)
Min(S) == CHOOSE x \in S : \A y \in S : x <= y
Max(S) == CHOOSE x \in S : \A y \in S : x >= y

CRLF == <<"\r", "\n">>

\* The literal "\r\n\r\n" searched by handle_request.
Terminator == CRLF \o CRLF

\* The 4 of find("\r\n\r\n") + 4.
TerminatorLength == 4

\* int chunk_size = 1024;
chunk_size == 1024

GET == <<"G", "E", "T">>
POST == <<"P", "O", "S", "T">>
PUT == <<"P", "U", "T">>
DELETE == <<"D", "E", "L", "E", "T", "E">>

\* The methods given a body, were POST the only one.
BodyMethodsPostOnly == {POST}

\* Mutant of BodyMethods: every method is given a body.
BodyMethodsAll == {GET, POST, PUT, DELETE}

\* The methods for which a body is read: method == "POST" || method == "PUT".
BodyMethods == {POST, PUT}

\* The key looked up by headers.find("content-length").
ContentLengthKey ==
    <<"c", "o", "n", "t", "e", "n", "t", "-", "l", "e", "n", "g", "t", "h">>

UpperCase == <<"A", "B", "C", "D", "E", "F", "G", "H", "I", "J", "K", "L", "M",
               "N", "O", "P", "Q", "R", "S", "T", "U", "V", "W", "X", "Y", "Z">>
LowerCase == <<"a", "b", "c", "d", "e", "f", "g", "h", "i", "j", "k", "l", "m",
               "n", "o", "p", "q", "r", "s", "t", "u", "v", "w", "x", "y", "z">>
Digits == <<"0", "1", "2", "3", "4", "5", "6", "7", "8", "9">>

\* ::tolower on one character.
ToLowerChar(c) ==
    IF \E i \in 1..Len(UpperCase) : UpperCase[i] = c
      THEN LowerCase[CHOOSE i \in 1..Len(UpperCase) : UpperCase[i] = c]
      ELSE c

\* Mutant of ToLower: header keys are stored as they were sent.
ToLowerKept(s) == s

\* std::transform(key.begin(), key.end(), key.begin(), ::tolower)
ToLower(s) == [i \in 1..Len(s) |-> ToLowerChar(s[i])]

\* isspace, on the characters the model's streams hold.
IsSpace(c) == c \in {" ", "\t", "\n", "\r", "\f"}

IsDigit(c) == \E i \in 1..Len(Digits) : Digits[i] = c

DigitValue(c) == (CHOOSE i \in 1..Len(Digits) : Digits[i] = c) - 1

\* std::string::find(pat): the 0-based offset of the first occurrence, -1 for npos.
Find(s, pat) ==
    LET at == {i \in 1..(Len(s) - Len(pat) + 1) :
                  SubSeq(s, i, i + Len(pat) - 1) = pat}
    IN IF at = {} THEN -1 ELSE Min(at) - 1

\* A size_t keeps 64 bits: a value of 2^63 or more is written as the
\* negative number that has the same bits, so that + is the addition
\* modulo 2^64 on every value the model meets.  This is the comparison >= of
\* two such values.
UnsignedGe(a, b) ==
    IF (a >= 0) = (b >= 0) THEN a >= b ELSE a < 0

\* The characters before the first c of s[p..], and the index after it:
\* std::getline(ss, line) from position p.  It fails at the end of the stream.
GetLine(s, p) ==
    IF p > Len(s)
      THEN [ok |-> FALSE, line |-> <<>>, next |-> p]
      ELSE LET nl == {i \in p..Len(s) : s[i] = "\n"}
           IN IF nl = {}
                THEN [ok |-> TRUE, line |-> SubSeq(s, p, Len(s)), next |-> Len(s) + 1]
                ELSE [ok |-> TRUE, line |-> SubSeq(s, p, Min(nl) - 1),
                      next |-> Min(nl) + 1]

\* line_ss >> token from index p: leading whitespace is skipped, the token
\* ends at the next whitespace; a failed extraction leaves the string empty.
NextToken(s, p) ==
    LET ns == {i \in p..Len(s) : ~IsSpace(s[i])}
    IN IF ns = {}
         THEN [tok |-> <<>>, next |-> Len(s) + 1]
         ELSE LET sp == {i \in Min(ns)..Len(s) : IsSpace(s[i])}
                  b == IF sp = {} THEN Len(s) + 1 ELSE Min(sp)
              IN [tok |-> SubSeq(s, Min(ns), b - 1), next |-> b]

\* if (!s.empty() && s.back() == '\r') s.pop_back();
StripCR(s) ==
    IF s # <<>> /\ s[Len(s)] = "\r" THEN SubSeq(s, 1, Len(s) - 1) ELSE s

\* erase(0, find_first_not_of(" \t")) and erase(find_last_not_of(" \t") + 1)
Trim(s) ==
    LET ns == {i \in 1..Len(s) : s[i] \notin {" ", "\t"}}
    IN IF ns = {} THEN <<>> ELSE SubSeq(s, Min(ns), Max(ns))

RECURSIVE DecimalValue(_)
DecimalValue(d) ==
    IF d = <<>> THEN 0
    ELSE 10 * DecimalValue(SubSeq(d, 1, Len(d) - 1)) + DigitValue(d[Len(d)])

\* std::stoi: leading whitespace, an optional sign, then the longest run of
\* digits; it throws when there is no digit.  (The streams of the model hold
\* no value beyond the range of int.)
Stoi(s) ==
    LET ns == {i \in 1..Len(s) : ~IsSpace(s[i])}
    IN IF ns = {}
         THEN [ok |-> FALSE, value |-> 0]
         ELSE LET a == Min(ns)
                  b == IF s[a] \in {"-", "+"} THEN a + 1 ELSE a
                  nd == {i \in b..Len(s) : ~IsDigit(s[i])}
                  e == IF nd = {} THEN Len(s) ELSE Min(nd) - 1
                  v == DecimalValue(SubSeq(s, b, e))
              IN IF e < b
                   THEN [ok |-> FALSE, value |-> 0]
                   ELSE [ok |-> TRUE, value |-> IF s[a] = "-" THEN 0 - v ELSE v]

(***************************************************************************)
(* HttpRequest::parse.                                                     *)
(***************************************************************************)
\* std::map<std::string, std::string> headers, empty.
EmptyHeaders == [k \in {} |-> <<>>]

\* headers[key] = value kept from the first occurrence of the key.
PutHeaderKeepFirst(h, key, value) ==
    [k \in DOMAIN h \cup {key} |-> IF k \in DOMAIN h THEN h[k] ELSE value]

\* headers[key] = value
PutHeader(h, key, value) ==
    [k \in DOMAIN h \cup {key} |-> IF k = key THEN value ELSE h[k]]

\* One header line, its '\r' already removed: split at the first colon, trim,
\* lowercase the key; a line without a colon is skipped.
HeaderLine(h, line) ==
    LET colon_pos == Find(line, <<":">>)
    IN IF colon_pos = -1
         THEN h
         ELSE PutHeader(h,
                        ToLower(Trim(SubSeq(line, 1, colon_pos))),
                        Trim(SubSeq(line, colon_pos + 2, Len(line))))

\* while (std::getline(ss, line) && line != "\r" && !line.empty()) ...
\* Returns the headers and the index of the first unread character; after a
\* failed getline nothing more can be read from the stream.
RECURSIVE ParseHeaders(_, _, _)
ParseHeaders(s, p, h) ==
    LET g == GetLine(s, p)
    IN IF ~g.ok
         THEN [headers |-> h, next |-> Len(s) + 1]
         ELSE IF g.line = <<"\r">> \/ g.line = <<>>
                THEN [headers |-> h, next |-> g.next]
                ELSE ParseHeaders(s, g.next, HeaderLine(h, StripCR(g.line)))

\* Mutant of Substr0: the last byte asked for is left out.
Substr0Short(s, count) == SubSeq(s, 1, (IF count < Len(s) THEN count ELSE Len(s)) - 1)

\* std::string::substr(0, count)
Substr0(s, count) == SubSeq(s, 1, IF count < Len(s) THEN count ELSE Len(s))

\* Mutant of BodyOf: when stoi throws, the body is all that remains.
BodyOfUnchecked(remaining, lengthValue) ==
    LET n == Stoi(lengthValue)
    IN IF ~n.ok
         THEN remaining
         ELSE IF UnsignedGe(Len(remaining), n.value)
                THEN Substr0(remaining, n.value)
                ELSE remaining

\* The body of a request with the given content-length value: the comparison
\* remaining_data.length() >= content_length is one of size_t values.
BodyOf(remaining, lengthValue) ==
    LET n == Stoi(lengthValue)
    IN IF ~n.ok
         THEN <<>>
         ELSE IF UnsignedGe(Len(remaining), n.value)
                THEN Substr0(remaining, n.value)
                ELSE remaining

\* What parse leaves in the HttpRequest, with its return value as ok.
Parse(raw) ==
    LET none == [ok |-> FALSE, method |-> <<>>, path |-> <<>>, version |-> <<>>,
                 headers |-> EmptyHeaders, body |-> <<>>]
        g == GetLine(raw, 1)
        t1 == NextToken(g.line, 1)
        t2 == NextToken(g.line, t1.next)
        t3 == NextToken(g.line, t2.next)
        version == StripCR(t3.tok)
        hp == ParseHeaders(raw, g.next, EmptyHeaders)
    IN IF raw = <<>> \/ ~g.ok \/ g.line = <<>>
         THEN none
         ELSE IF t1.tok = <<>> \/ t2.tok = <<>> \/ version = <<>>
                THEN [none EXCEPT !.method = t1.tok, !.path = t2.tok,
                                  !.version = version]
                ELSE [ok |-> TRUE, method |-> t1.tok, path |-> t2.tok,
                      version |-> version, headers |-> hp.headers,
                      body |-> IF t1.tok \in BodyMethods
                                    /\ ContentLengthKey \in DOMAIN hp.headers
                                 THEN BodyOf(SubSeq(raw, hp.next, Len(raw)),
                                             hp.headers[ContentLengthKey])
                                 ELSE <<>>]

(***************************************************************************)
(* The requests a peer may send.                                           *)
(***************************************************************************)
HttpVersion == <<"H", "T", "T", "P", "/", "1", ".", "1">>

ContentLengthName ==
    <<"C", "o", "n", "t", "e", "n", "t", "-", "L", "e", "n", "g", "t", "h">>

BodyBytes == <<"a", "b", "c", "d", "e", "f", "g", "h">>

RECURSIVE Decimal(_)
Decimal(n) ==
    IF n < 10 THEN <<Digits[n + 1]>>
    ELSE Decimal(n \div 10) \o <<Digits[(n % 10) + 1]>>

NoLength == [name |-> <<>>, value |-> <<>>]

LengthFields ==
    {NoLength}
    \cup {[name |-> ContentLengthName, value |-> Decimal(n)] : n \in 0..MaxDeclared}
    \cup {[name |-> ContentLengthKey, value |-> Decimal(MaxDeclared)]}
    \cup {[name |-> ContentLengthName, value |-> v] :
            v \in {<<"x">>, <<"-", "1">>, <<"-", "9", "9">>}}

RequestLines ==
    {[method |-> m, path |-> <<"/">>, version |-> HttpVersion] :
        m \in {GET, POST, PUT, DELETE}}
    \cup {[method |-> GET, path |-> <<"/", "a">>, version |-> HttpVersion]}
    \cup {[method |-> GET, path |-> <<>>, version |-> <<>>]}

Origins ==
    {[method |-> l.method, path |-> l.path, version |-> l.version,
      length |-> f, body |-> SubSeq(BodyBytes, 1, n)] :
        l \in RequestLines, f \in LengthFields, n \in 0..MaxBody}

\* The tokens of the request line that are present, separated by one space.
RequestLine(o) ==
    o.method
    \o (IF o.path = <<>> THEN <<>> ELSE <<" ">> \o o.path)
    \o (IF o.version = <<>> THEN <<>> ELSE <<" ">> \o o.version)

\* The bytes on the wire: request line, the length header if any, a blank
\* line, the body.
Serialize(o) ==
    RequestLine(o) \o CRLF
    \o (IF o.length = NoLength THEN <<>>
        ELSE o.length.name \o <<":", " ">> \o o.length.value \o CRLF)
    \o CRLF \o o.body

(***************************************************************************)
(* handle_request (webserver3.cpp): the read loop and the dispatch.        *)
(***************************************************************************)
NoRequest == [ok |-> FALSE, method |-> <<>>, path |-> <<>>, version |-> <<>>,
              headers |-> EmptyHeaders, body |-> <<>>]

NoResponse == [status |-> "", ctype |-> "", clen |-> 0, body |-> <<>>]

\* Mutant of NotFound: the literal length is one short.
NotFoundMiscounted ==
    [status |-> "404 Not Found", ctype |-> "text/plain", clen |-> 8,
     body |-> <<"N", "o", "t", " ", "F", "o", "u", "n", "d">>]

NotFound ==
    [status |-> "404 Not Found", ctype |-> "text/plain", clen |-> 9,
     body |-> <<"N", "o", "t", " ", "F", "o", "u", "n", "d">>]

\* What read_file may return: nothing, or the bytes of the file.
FileContents == {<<>>, <<"h", "i">>}

ParkedOrigin ==
    [method |-> <<>>, path |-> <<>>, version |-> <<>>, length |-> NoLength,
     body |-> <<>>]

\* No connection is being driven.
DriverParked ==
    /\ origin = ParkedOrigin
    /\ stream = <<>>
    /\ pos = 0
    /\ request_data = <<>>
    /\ valread = 0
    /\ current_size = 0
    /\ header_received = FALSE
    /\ content_length = 0
    /\ hpc = "none"
    /\ handled = FALSE
    /\ req = NoRequest
    /\ response = NoResponse
    /\ file_path = <<>>
    /\ content = <<>>
    /\ sent = 0
    /\ closed = 0

\* handle_request is entered on a connection whose peer will send stream.
DriverInit ==
    /\ origin \in Origins
    /\ stream = Serialize(origin)
    /\ pos = 0
    /\ request_data = <<>>
    /\ valread = 0
    /\ current_size = 0
    /\ header_received = FALSE
    /\ content_length = 0
    /\ hpc = "reading"
    /\ handled = FALSE
    /\ req = NoRequest
    /\ response = NoResponse
    /\ file_path = <<>>
    /\ content = <<>>
    /\ sent = 0
    /\ closed = 0

\* What NetRecv may return when the peer has left bytes still to deliver:
\* an error, a close, or some of those bytes, at most chunk_size: a short
\* read of up to MaxPartial bytes, or all that fit.
RecvResults(left) ==
    LET most == IF left < chunk_size THEN left ELSE chunk_size
    IN {-1, 0} \cup {n \in 1..most : n <= MaxPartial \/ n = most}

\* Mutant of ReadFailed: a close of the peer is taken for data.
ReadFailedOnErrorOnly(n) == n < 0

\* if (valread <= 0)
ReadFailed(n) == n <= 0

\* request_data.find("\r\n\r\n")
HeaderEnd(data) == Find(data, Terminator)

\* The content length the loop takes from the buffer once the terminator is
\* in it: temp_req.parse, then stoi of content-length for POST and PUT.
\* ok is FALSE when stoi throws.
ScanLength(data) ==
    LET temp_req == Parse(data)
    IN IF temp_req.method \in BodyMethods
            /\ ContentLengthKey \in DOMAIN temp_req.headers
         THEN Stoi(temp_req.headers[ContentLengthKey])
         ELSE [ok |-> TRUE, value |-> 0]

\* Mutant of ExpectedTotalSize: the 4 bytes of the terminator are left out.
ExpectedTotalSizeNoTerminator(data, cl) == HeaderEnd(data) + cl

\* size_t expected_total_size = body_start + content_length;
ExpectedTotalSize(data, cl) == HeaderEnd(data) + TerminatorLength + cl

\* Mutant of FrameComplete: the loop stops once the header is in.
FrameCompleteAtHeader(data, cl) == TRUE

\* Mutant of FrameComplete: the loop goes on until a read fails.
FrameCompleteNever(data, cl) == FALSE

\* The two stop tests made once header_received is set.
FrameComplete(data, cl) ==
    \/ UnsignedGe(Len(data), ExpectedTotalSize(data, cl))
    \/ cl = 0

\* One iteration of while (true): NetRecv, the header search, the stop tests.
DriverRead ==
    /\ hpc = "reading"
    /\ \E n \in RecvResults(Len(stream) - pos) :
        LET data == IF n > 0
                      THEN request_data \o SubSeq(stream, pos + 1, pos + n)
                      ELSE request_data
            found == ~ReadFailed(n) /\ ~header_received /\ HeaderEnd(data) # -1
            scan == ScanLength(data)
            threw == found /\ ~scan.ok
            cl == IF found /\ scan.ok THEN scan.value ELSE content_length
            hr == header_received \/ found
            stops == ReadFailed(n) \/ threw \/ (hr /\ FrameComplete(data, cl))
        IN /\ valread' = n
           /\ current_size' = Len(request_data)
           /\ request_data' = data
           /\ pos' = IF n > 0 THEN pos + n ELSE pos
           /\ header_received' = hr
           /\ content_length' = cl
           /\ hpc' = IF stops THEN "read_done" ELSE "reading"
    /\ UNCHANGED <<origin, stream, handled, req, response, file_path, content,
                   sent, closed>>

\* The response handle_request sends for the parsed request, file being
\* what read_file returned; NoResponse when it sends nothing.
Handle(r, file) ==
    IF r.method = GET
      THEN IF file = <<>>
             THEN NotFound
             ELSE [status |-> "200 OK", ctype |-> "text/html",
                   clen |-> Len(file), body |-> file]
      ELSE IF r.method = POST
             THEN [status |-> "200 OK", ctype |-> "text/plain",
                   clen |-> Len(r.body), body |-> r.body]
             ELSE NoResponse

\* Mutant of DispatchGuard: a closed connection is dispatched too.
DispatchGuardNonNegative == valread >= 0

\* if (valread > 0)
DispatchGuard == valread > 0

\* "html"
HtmlDir == <<"h", "t", "m", "l">>

\* "html/index.html"
IndexPath == HtmlDir \o <<"/", "i", "n", "d", "e", "x", ".", "h", "t", "m", "l">>

\* Mutant of FilePath: "/" is not mapped to the index file.
FilePathNoIndex(r) == HtmlDir \o r.path

\* std::string file_path = "html" + req.path;
\* if (req.path == "/") file_path = "html/index.html";
FilePath(r) == IF r.path = <<"/">> THEN IndexPath ELSE HtmlDir \o r.path

\* The characters of the status and of the content type of a response.
StatusText(status) ==
    CASE status = "200 OK" -> <<"2", "0", "0", " ", "O", "K">>
      [] status = "404 Not Found" ->
            <<"4", "0", "4", " ", "N", "o", "t", " ", "F", "o", "u", "n", "d">>
      [] OTHER -> <<>>

TypeText(ctype) ==
    CASE ctype = "text/html" -> <<"t", "e", "x", "t", "/", "h", "t", "m", "l">>
      [] ctype = "text/plain" -> <<"t", "e", "x", "t", "/", "p", "l", "a", "i", "n">>
      [] OTHER -> <<>>

ContentTypeName == <<"C", "o", "n", "t", "e", "n", "t", "-", "T", "y", "p", "e">>

\* The string given to send_response: status line, Content-Type,
\* Content-Length, a blank line, the body.
Message(resp) ==
    HttpVersion \o <<" ">> \o StatusText(resp.status) \o CRLF
    \o ContentTypeName \o <<":", " ">> \o TypeText(resp.ctype) \o CRLF
    \o ContentLengthName \o <<":", " ">> \o Decimal(resp.clen) \o CRLF
    \o CRLF \o resp.body

\* What NetSend may return for a message of len bytes: an error, or the
\* number of bytes it took, a few (up to MaxPartial) or all of them.
SendResults(len) == {-1} \cup {n \in 1..len : n <= MaxPartial \/ n = len}

\* After the loop: parse the buffer and answer, when the last read gave data.
\* send_response calls NetSend once and drops what it returns.
DriverDispatch ==
    /\ hpc = "read_done"
    /\ IF DispatchGuard
         THEN LET r == Parse(request_data)
              IN \E c \in (IF r.method = GET THEN FileContents ELSE {<<>>}) :
                   LET resp == Handle(r, c)
                   IN \E n \in (IF resp = NoResponse
                                   THEN {0}
                                   ELSE SendResults(Len(Message(resp)))) :
                        /\ req' = r
                        /\ handled' = TRUE
                        /\ file_path' = IF r.method = GET THEN FilePath(r) ELSE <<>>
                        /\ content' = c
                        /\ response' = resp
                        /\ sent' = n
         ELSE UNCHANGED <<req, handled, file_path, content, response, sent>>
    /\ hpc' = "done"
    /\ UNCHANGED <<origin, stream, pos, request_data, valread, current_size,
                   header_received, content_length, closed>>

DriverNext == DriverRead \/ DriverDispatch

(***************************************************************************)
(* The pool's specification.                                               *)
(***************************************************************************)
WorkerStep(w) ==
    \/ WorkerLock(w)
    \/ WorkerWait(w)
    \/ SpuriousWakeup(w)
    \/ WorkerExit(w)
    \/ WorkerDequeue(w)
    \/ WorkerRun(w)

ClientStep(c) ==
    \/ EnqueueBegin(c)
    \/ EnqueueLock(c)
    \/ EnqueueCheck(c)
    \/ EnqueueNotify(c)

DtorStep ==
    \/ DtorBegin
    \/ DtorLock
    \/ DtorSetStop
    \/ DtorNotifyAll
    \/ DtorJoin

PoolNext ==
    \/ \E w \in Workers : WorkerStep(w)
    \/ \E c \in Clients : ClientStep(c)
    \/ DtorStep
    \/ DtorAgain

Init == PoolInit /\ DriverParked

\* Any interleaving of the workers, the callers of enqueue and the
\* destructor, with at most MaxRaced calls of enqueue.
Next == PoolNext /\ nextTask' <= MaxRaced + 1 /\ UNCHANGED driverVars

Spec == Init /\ [][Next]_vars

(***************************************************************************)
(* The driver's specification: one connection, handled by one task.        *)
(***************************************************************************)
DriverSpecInit == PoolInit /\ DriverInit

DriverSpecNext == DriverNext /\ UNCHANGED poolVars

DriverSpec == DriverSpecInit /\ [][DriverSpecNext]_vars

\* Every NetRecv eventually returns.
FairDriverSpec == DriverSpec /\ WF_vars(DriverRead /\ UNCHANGED poolVars)

(***************************************************************************)
(* The parser's specification: HttpRequest::parse applied once to a buffer *)
(* drawn from requests with 0 to 3 tokens on the request line, up to two   *)
(* header lines with and without padding, and a body.                      *)
(***************************************************************************)
OtherName == <<"X", "-", "A">>

OtherKey == <<"x", "-", "a">>

\* Header names as sent, each with its lowercase form.
FieldNames ==
    {[name |-> ContentLengthName, lower |-> ContentLengthKey],
     [name |-> ContentLengthKey, lower |-> ContentLengthKey],
     [name |-> OtherName, lower |-> OtherKey]}

\* The spaces and tabs put around a header's name and around its value.
FieldPads == {<<>>, <<" ", "\t">>}

\* Header values as sent: a number, or two words.
FieldValues == {Decimal(n) : n \in 0..MaxDeclared} \cup {<<"v", " ", "w">>}

HeaderFields ==
    {[name |-> f.name, lower |-> f.lower, pad |-> p, value |-> v] :
        f \in FieldNames, p \in FieldPads, v \in FieldValues}

\* The tokens of a request line: all three, or too few.
TokenLists ==
    {<<m, <<"/">>, HttpVersion>> : m \in {GET, POST, PUT, DELETE}}
    \cup {<<>>, <<GET>>, <<GET, <<"/">> >>}

EmptyInput == [empty |-> TRUE, tokens |-> <<>>, fields |-> <<>>, body |-> <<>>]

ParserInputs ==
    {EmptyInput}
    \cup {[empty |-> FALSE, tokens |-> t, fields |-> fs,
           body |-> SubSeq(BodyBytes, 1, n)] :
            t \in TokenLists,
            fs \in {<<>>} \cup {<<f>> : f \in HeaderFields}
                   \cup {<<f, g>> : f \in HeaderFields, g \in HeaderFields},
            n \in 0..MaxBody}

RECURSIVE JoinTokens(_)
JoinTokens(ts) ==
    IF ts = <<>> THEN <<>>
    ELSE IF Len(ts) = 1 THEN ts[1]
    ELSE ts[1] \o <<" ">> \o JoinTokens(Tail(ts))

FieldLine(f) ==
    f.pad \o f.name \o f.pad \o <<":">> \o f.pad \o f.value \o f.pad \o CRLF

RECURSIVE FieldLines(_)
FieldLines(fs) ==
    IF fs = <<>> THEN <<>> ELSE FieldLine(Head(fs)) \o FieldLines(Tail(fs))

\* The buffer handed to parse.
RawRequest(i) ==
    IF i.empty
      THEN <<>>
      ELSE JoinTokens(i.tokens) \o CRLF \o FieldLines(i.fields) \o CRLF \o i.body

\* A buffer is about to be parsed; no connection is being driven.
ParserInit ==
    /\ origin \in ParserInputs
    /\ stream = <<>>
    /\ pos = 0
    /\ request_data = RawRequest(origin)
    /\ valread = 0
    /\ current_size = 0
    /\ header_received = FALSE
    /\ content_length = 0
    /\ hpc = "parse"
    /\ handled = FALSE
    /\ req = NoRequest
    /\ response = NoResponse
    /\ file_path = <<>>
    /\ content = <<>>
    /\ sent = 0
    /\ closed = 0

\* req.parse(request_data)
ParserParse ==
    /\ hpc = "parse"
    /\ req' = Parse(request_data)
    /\ hpc' = "parsed"
    /\ UNCHANGED <<origin, stream, pos, request_data, valread, current_size,
                   header_received, content_length, handled, response,
                   file_path, content, sent, closed>>

ParserSpecInit == PoolInit /\ ParserInit

ParserSpecNext == ParserParse /\ UNCHANGED poolVars

ParserSpec == ParserSpecInit /\ [][ParserSpecNext]_vars

(***************************************************************************)
(* Scheduling assumptions for the liveness claims: a running thread keeps  *)
(* running, every task terminates, every critical section is left, and a   *)
(* thread blocked on queue_mutex gets it when it is released again and     *)
(* again.  No call of enqueue or of the destructor is forced to begin, and *)
(* no spurious wake-up is forced to happen.                                *)
(***************************************************************************)
WorkerProgress(w) ==
    WorkerWait(w) \/ WorkerExit(w) \/ WorkerDequeue(w) \/ WorkerRun(w)

ClientProgress(c) == EnqueueCheck(c) \/ EnqueueNotify(c)

DtorProgress == DtorSetStop \/ DtorNotifyAll \/ DtorJoin

\* The program's own configuration: one thread, main's accept loop, calls
\* enqueue (webserver3.cpp, pool.enqueue(handle_request, new_socket)).
Acceptor == 1

LiveNext ==
    /\ \/ \E w \in Workers : WorkerStep(w)
       \/ ClientStep(Acceptor)
       \/ DtorStep
    /\ UNCHANGED driverVars

Fairness ==
    /\ \A w \in Workers :
          WF_vars(WorkerProgress(w) /\ UNCHANGED driverVars)
          /\ SF_vars(WorkerLock(w) /\ UNCHANGED driverVars)
    /\ WF_vars(ClientProgress(Acceptor) /\ UNCHANGED driverVars)
    /\ SF_vars(EnqueueLock(Acceptor) /\ UNCHANGED driverVars)
    /\ WF_vars(DtorProgress /\ UNCHANGED driverVars)
    /\ SF_vars(DtorLock /\ UNCHANGED driverVars)

FairSpec == Init /\ [][LiveNext]_vars /\ Fairness

(***************************************************************************)
(* Scheduling assumptions without the termination of tasks: a worker       *)
(* leaves its critical section, but a task it runs may run for ever.       *)
(***************************************************************************)
WorkerSectionProgress(w) == WorkerWait(w) \/ WorkerExit(w) \/ WorkerDequeue(w)

BusyFairness ==
    /\ \A w \in Workers :
          WF_vars(WorkerSectionProgress(w) /\ UNCHANGED driverVars)
          /\ SF_vars(WorkerLock(w) /\ UNCHANGED driverVars)
    /\ WF_vars(ClientProgress(Acceptor) /\ UNCHANGED driverVars)
    /\ SF_vars(EnqueueLock(Acceptor) /\ UNCHANGED driverVars)
    /\ WF_vars(DtorSetStop /\ UNCHANGED driverVars)
    /\ SF_vars(DtorLock /\ UNCHANGED driverVars)

BusySpec == Init /\ [][LiveNext]_vars /\ BusyFairness

(***************************************************************************)
(* The pool while it serves: the destructor is not run, so stop_flag stays *)
(* false and the exit test of the workers is never met.  Scheduling is     *)
(* that of FairSpec: tasks terminate, spurious wake-ups are not forced.    *)
(***************************************************************************)
ServeNext ==
    /\ \/ \E w \in Workers :
             \/ WorkerLock(w)
             \/ WorkerWait(w)
             \/ SpuriousWakeup(w)
             \/ WorkerDequeue(w)
             \/ WorkerRun(w)
       \/ ClientStep(Acceptor)
    /\ UNCHANGED driverVars

ServeSpec == Init /\ [][ServeNext]_vars /\ Fairness

(***************************************************************************)
(* Helpers of the claims.                                                  *)
(***************************************************************************)
\* How many times x occurs in the sequence q.
Count(q, x) == Cardinality({i \in 1..Len(q) : q[i] = x})

\* In how many places task t is: queued, held by a worker, or executed.
Places(t) ==
    Count(tasks, t) + Cardinality({w \in Workers : wtask[w] = t}) + runs[t]

AllExited == \A w \in Workers : wpc[w] = "exited"

AllAcceptedRan == \A t \in accepted : runs[t] = 1

\* Thread c leaves the critical section of enqueue in this step.
LeavesCheck(c) == cpc[c] = "locked" /\ cpc'[c] # "locked"

(***************************************************************************)
(* C1: every task accepted into the queue is executed by exactly one       *)
(* worker: at any moment an accepted task is in exactly one place (queued  *)
(* once, held by one worker, or executed once), a task that was not        *)
(* accepted is nowhere, no task is executed twice, and when all workers    *)
(* have exited every accepted task has been executed.                      *)
(***************************************************************************)
C1_ExactlyOnce ==
    /\ \A t \in TaskIds : runs[t] <= 1
    /\ \A t \in TaskIds : Places(t) = (IF t \in accepted THEN 1 ELSE 0)
    /\ AllExited => AllAcceptedRan

\* Both workers have executed a task, and every accepted task is done.
C1_Witness ==
    /\ AllExited
    /\ accepted = 1..MaxRaced
    /\ \A t \in 1..MaxRaced : runs[t] = 1

(***************************************************************************)
(* C2: when the destructor has returned the queue is empty, no worker      *)
(* holds a task, every worker has exited and every accepted task has been  *)
(* executed; and once the destructor is entered it eventually returns      *)
(* (every task terminates: FairSpec).                                      *)
(***************************************************************************)
C2_ShutdownDrains ==
    /\ [](dpc = "done" =>
            /\ tasks = <<>>
            /\ \A w \in Workers : wpc[w] = "exited" /\ wtask[w] = 0
            /\ AllAcceptedRan)
    /\ (dpc = "lock" ~> dpc = "done")

\* The destructor returned after a run in which every enqueue was accepted.
C2_Witness == dpc = "done" /\ accepted = TaskIds

(***************************************************************************)
(* C3: an enqueue call that finds stop_flag set throws, leaves the queue   *)
(* as it was, and its task is never queued, held or executed.              *)
(***************************************************************************)
C3_StoppedEnqueueThrows ==
    /\ [][\A c \in Clients :
            (LeavesCheck(c) /\ stop_flag) =>
                /\ cpc'[c] = "idle"
                /\ tasks' = tasks
                /\ accepted' = accepted]_vars
    /\ [](\A t \in Rejected : Places(t) = 0)

\* A call was refused and the pool has shut down without running its task.
C3_Witness == Rejected # {} /\ dpc = "done"

(***************************************************************************)
(* C4 as claimed: an enqueue call whose critical section runs while the    *)
(* destructor has been entered and has not returned is refused.            *)
(***************************************************************************)
C4_ConcurrentEnqueueRefused ==
    [][\A c \in Clients :
        (LeavesCheck(c) /\ dpc \notin {"idle", "done"}) => cpc'[c] = "idle"]_vars

(***************************************************************************)
(* C4 as amended: an enqueue call is refused exactly when it takes         *)
(* queue_mutex after the destructor has set stop_flag; a call that takes   *)
(* the mutex before that is accepted although the destructor has been      *)
(* entered, and its task has been executed when the destructor returns.    *)
(***************************************************************************)
C4_RefusedOnceStopSet ==
    /\ [][\A c \in Clients :
            LeavesCheck(c) =>
                (cpc'[c] = "idle" <=> dpc \in {"notify", "join", "done"})]_vars
    /\ [](dpc = "done" => AllAcceptedRan)

\* While the destructor is still running one call has been refused and
\* another, accepted, is leaving enqueue.
C4_Witness ==
    /\ dpc \in {"notify", "join"}
    /\ Rejected # {}
    /\ \E c \in Clients : cpc[c] = "notify"

(***************************************************************************)
(* C5: tasks leave the queue in FIFO order: when a worker pops task b, no  *)
(* task whose enqueue had returned before b's enqueue began is still in    *)
(* the queue, and in the queue such a task is never behind b.              *)
(***************************************************************************)
C5_Fifo ==
    /\ [][\A w \in Workers :
            (wpc[w] = "locked" /\ wpc'[w] = "running") =>
                \A a \in before[wtask'[w]] :
                    a \in accepted /\ Count(tasks', a) = 0]_vars
    /\ [](\A i, j \in 1..Len(tasks) :
            i < j => tasks[j] \notin before[tasks[i]])

\* A worker holds task a while b, whose enqueue began after a's returned,
\* waits in the queue.
C5_Witness ==
    \E w \in Workers : \E i \in 1..Len(tasks) :
        /\ wpc[w] = "running"
        /\ wtask[w] \in before[tasks[i]]

(***************************************************************************)
(* C6: a task that raises ends neither its worker nor the pool: a worker   *)
(* is always in its loop unless it has exited on a stopped pool, and the   *)
(* tasks accepted are all executed by the time the workers have exited,    *)
(* also when some task raised.                                             *)
(***************************************************************************)
C6_FailureIsolated ==
    /\ \A w \in Workers :
          \/ wpc[w] \in {"start", "locked", "waiting", "running"}
          \/ wpc[w] = "exited" /\ stop_flag
    /\ (wfailed # {} /\ AllExited) => AllAcceptedRan

\* A worker whose earlier task raised is executing a later task.
C6_Witness == \E w \in wfailed : wpc[w] = "running"

(***************************************************************************)
(* Claims about the connection driver.                                     *)
(***************************************************************************)
\* The loop has ended on a read that returned data: the request goes on to
\* the full parse and the method dispatch.
Completed == hpc \in {"read_done", "done"} /\ valread > 0

\* The loop has ended on a read that returned a close or an error.
Aborted == hpc \in {"read_done", "done"} /\ valread <= 0

IsNatural(v) == \E n \in 0..MaxDeclared : v = Decimal(n)

NaturalOf(v) == CHOOSE n \in 0..MaxDeclared : v = Decimal(n)

\* The body length a request declares to the framer: its Content-Length
\* when the method is POST or PUT and the value is a number, otherwise 0.
DeclaredLength(o) ==
    IF o.method \in BodyMethods /\ o.length # NoLength /\ IsNatural(o.length.value)
      THEN NaturalOf(o.length.value)
      ELSE 0

\* Three tokens on the request line, a numeric length header or none, and
\* exactly the declared number of body bytes.
WellFormed(o) ==
    /\ o.method # <<>> /\ o.path # <<>> /\ o.version # <<>>
    /\ o.length = NoLength \/ IsNatural(o.length.value)
    /\ Len(o.body) = DeclaredLength(o)

\* C7: whenever the loop has signalled completion, and whenever the request
\* has been parsed and dispatched or a response produced, the buffer holds
\* the terminator CRLF CRLF and the declared length is 0 or the buffer has at
\* least terminator offset + 4 + content_length bytes.
C7_FramedBeforeHandled ==
    (Completed \/ handled \/ response # NoResponse)
        => /\ HeaderEnd(request_data) # -1
           /\ \/ content_length = 0
              \/ Len(request_data) >=
                    HeaderEnd(request_data) + TerminatorLength + content_length

\* A POST with a body, read in more than one chunk, was answered.
C7_Witness ==
    /\ handled
    /\ content_length > 0
    /\ current_size > 0
    /\ response.status = "200 OK"

\* C8: for a well-formed request with declared length L, whatever the sizes
\* of the reads, the loop is still reading while fewer than header end + 4 +
\* L bytes are in the buffer, it completes on the read that first brings the
\* buffer to that size, and the Request that is dispatched is the parse of
\* the whole stream: the method, path, version, header and body sent.
C8_ChunkingIndependent ==
    WellFormed(origin) =>
        LET need == HeaderEnd(stream) + TerminatorLength + DeclaredLength(origin)
        IN /\ hpc = "reading" => Len(request_data) < need
           /\ Completed => current_size < need /\ Len(request_data) >= need
           /\ handled =>
                /\ req = Parse(stream)
                /\ req.ok
                /\ req.method = origin.method
                /\ req.path = origin.path
                /\ req.version = origin.version
                /\ req.headers =
                      IF origin.length = NoLength
                        THEN EmptyHeaders
                        ELSE [k \in {ContentLengthKey} |-> origin.length.value]
                /\ req.body =
                      IF origin.method \in BodyMethods THEN origin.body ELSE <<>>

\* A well-formed POST with the longest body was dispatched after a last read
\* of one byte that followed other reads.
C8_Witness ==
    /\ handled
    /\ WellFormed(origin)
    /\ origin.method = POST
    /\ Len(origin.body) = MaxDeclared
    /\ valread = 1
    /\ current_size > HeaderEnd(stream) + TerminatorLength

\* C9: when the loop ends on a read that returned 0 or an error, the request
\* is not parsed, the method dispatch is not run and no response is
\* produced, whatever had been accumulated.
C9_NoResponseOnEarlyClose ==
    Aborted => /\ ~handled
               /\ req = NoRequest
               /\ response = NoResponse

\* The peer closed after the header of a request with a body had arrived;
\* the task went past the dispatch.
C9_Witness ==
    /\ hpc = "done"
    /\ valread = 0
    /\ header_received
    /\ content_length > 0
    /\ request_data # <<>>

\* C10: when every read returns, the loop ends, and a read that returns 0 or
\* an error is always the last one.
C10_LoopTerminates ==
    /\ <>(hpc # "reading")
    /\ [][(hpc = "reading" /\ valread' <= 0) => hpc' # "reading"]_vars

\* The peer sent fewer body bytes than it declared, all of them were read,
\* and the loop ended on the close that followed.
C10_Witness ==
    /\ hpc # "reading"
    /\ valread <= 0
    /\ header_received
    /\ pos = Len(stream)
    /\ Len(request_data) <
          HeaderEnd(request_data) + TerminatorLength + content_length

(***************************************************************************)
(* Claims about the answers of the connection driver.                      *)
(***************************************************************************)
\* The request that was dispatched declares no body length: it has no
\* content-length header, or the header says 0.
NoDeclaredLength ==
    \/ ContentLengthKey \notin DOMAIN req.headers
    \/ req.headers[ContentLengthKey] = <<"0">>

\* C11: a POST or PUT whose headers are complete and whose declared length
\* is 0 or absent is answered 411 and is not given to the normal handler:
\* when the task is over its response is 411 Length Required, not 200.
C11_LengthRequired ==
    (hpc = "done" /\ handled /\ req.ok /\ req.method \in BodyMethods
        /\ NoDeclaredLength)
        => response.status = "411 Length Required"

\* C12: when parse fails on the framed buffer the driver answers 400 and
\* runs neither the GET nor the POST handling: no file is looked up and the
\* response is 400 Bad Request.
C12_BadRequest ==
    (hpc = "done" /\ handled /\ ~req.ok)
        => /\ response.status = "400 Bad Request"
           /\ file_path = <<>>

\* C13: on every path through handle_request the client connection has
\* been closed exactly once when the task ends.
C13_ClosedExactlyOnce == hpc = "done" => closed = 1

\* C14: the response is written fully: unless a send failed, all the bytes
\* of the message have been sent when the task ends, and never more.
C14_WrittenFully ==
    (hpc = "done" /\ response # NoResponse /\ sent # -1)
        => sent = Len(Message(response))

\* The request that differs from origin only in the letter case of the name
\* of its length header, and as many of its bytes as were read of origin's.
TwinOrigin ==
    [origin EXCEPT !.length.name =
        IF @ = ContentLengthName THEN ContentLengthKey ELSE ContentLengthName]

TwinData == SubSeq(Serialize(TwinOrigin), 1, Len(request_data))

\* C15: for a request with a length header, after every read the framer
\* decides on the buffer as it would on the same bytes of the request whose
\* header name is in the other letter case: the terminator is found at the
\* same offset, the same content length is taken (content_length is the one
\* the twin gives), the stop test gives the same answer, and the Request that
\* is dispatched is the same.
C15_HeaderCaseIgnored ==
    origin.length # NoLength =>
        /\ HeaderEnd(TwinData) = HeaderEnd(request_data)
        /\ HeaderEnd(request_data) # -1 =>
              ScanLength(TwinData) = ScanLength(request_data)
        /\ header_received =>
              /\ content_length =
                    IF ScanLength(TwinData).ok THEN ScanLength(TwinData).value
                                                ELSE 0
              /\ FrameComplete(TwinData, content_length)
                    = FrameComplete(request_data, content_length)
        /\ handled => req = Parse(TwinData)

\* A POST sent with the header name content-length in lower case and the
\* largest length was dispatched after more than one read.
C15_Witness ==
    /\ handled
    /\ origin.method = POST
    /\ origin.length.name = ContentLengthKey
    /\ content_length = MaxDeclared
    /\ current_size > 0
    /\ response.body = origin.body

\* The request has no length header, or one whose value is not a number.
NoUsableLength ==
    origin.length = NoLength \/ ~Stoi(origin.length.value).ok

\* The same request carrying Content-Length: 0, and what the buffer would
\* hold of it: its header, then the bytes read after the header of origin.
ZeroOrigin ==
    [origin EXCEPT !.length = [name |-> ContentLengthName, value |-> <<"0">>]]

ZeroData ==
    Serialize([ZeroOrigin EXCEPT !.body = <<>>])
    \o SubSeq(request_data, HeaderEnd(request_data) + TerminatorLength + 1,
              Len(request_data))

PostWithBody ==
    /\ origin.method = POST
    /\ origin.length # NoLength
    /\ WellFormed(origin)

\* C17: for a POST with Content-Length n and a body of exactly n bytes,
\* whatever the sizes of the reads: when the loop completes the whole
\* request is in the buffer, the request is then dispatched, and the response
\* is 200 OK, text/plain, with exactly the n bytes of the body.
C17_PostEchoesBody ==
    PostWithBody =>
        /\ Completed => request_data = stream
        /\ (hpc = "done" /\ valread > 0) => handled
        /\ handled =>
              response = [status |-> "200 OK", ctype |-> "text/plain",
                          clen |-> Len(origin.body), body |-> origin.body]

\* Such a POST with the longest body, received in several reads, was
\* answered with its body.
C17_Witness ==
    /\ PostWithBody
    /\ Len(origin.body) = MaxDeclared
    /\ hpc = "done"
    /\ valread < Len(stream)
    /\ response.status = "200 OK"
    /\ response.body = origin.body

\* The headers of a message, read as parse reads those of a request: the
\* lines after the first, up to the blank line.
MessageHeaders(msg) ==
    ParseHeaders(msg, GetLine(msg, 1).next, EmptyHeaders).headers

\* The bytes of a message after its first blank line.
MessageBody(msg) ==
    SubSeq(msg, HeaderEnd(msg) + TerminatorLength + 1, Len(msg))

\* C18: every message handed to send_response has a Content-Length header
\* whose value is the number of bytes that follow the blank line, and those
\* bytes are the body of the response.
C18_ContentLengthMatchesBody ==
    response # NoResponse =>
        LET msg == Message(response)
        IN /\ HeaderEnd(msg) # -1
           /\ ContentLengthKey \in DOMAIN MessageHeaders(msg)
           /\ Stoi(MessageHeaders(msg)[ContentLengthKey])
                 = [ok |-> TRUE, value |-> Len(MessageBody(msg))]
           /\ MessageBody(msg) = response.body

\* The task ended having sent the whole of a 404 message.
C18_Witness ==
    /\ hpc = "done"
    /\ response.status = "404 Not Found"
    /\ sent = Len(Message(response))

\* C19: a complete request whose method is none of GET, POST, OPTIONS (here
\* PUT or DELETE) is answered 405, and no complete request is left without
\* a response.
C19_MethodNotAllowed ==
    (hpc = "done" /\ handled /\ req.ok) =>
        /\ response # NoResponse
        /\ req.method \in {PUT, DELETE} =>
              response.status = "405 Method Not Allowed"

\* C20: for a GET, read_file is given html/index.html when the path is /
\* and html followed by the path otherwise; the response is 404, text/plain,
\* Content-Length 9, body Not Found exactly when read_file returned nothing,
\* and otherwise 200, text/html, with the bytes read_file returned.
C20_GetServesFile ==
    (handled /\ req.method = GET) =>
        /\ file_path =
              IF req.path = <<"/">>
                THEN <<"h", "t", "m", "l", "/", "i", "n", "d", "e", "x", ".",
                       "h", "t", "m", "l">>
                ELSE <<"h", "t", "m", "l">> \o req.path
        /\ content = <<>> <=>
              response = [status |-> "404 Not Found", ctype |-> "text/plain",
                          clen |-> 9,
                          body |-> <<"N", "o", "t", " ", "F", "o", "u", "n", "d">>]
        /\ content # <<>> =>
              response = [status |-> "200 OK", ctype |-> "text/html",
                          clen |-> Len(content), body |-> content]

\* GET / was answered 200 with the bytes of html/index.html.
C20_Witness ==
    /\ handled
    /\ req.method = GET
    /\ req.path = <<"/">>
    /\ file_path = IndexPath
    /\ content # <<>>
    /\ response.body = content

\* The header names of a parser input, lowercased.
FieldKeys(fs) == {fs[i].lower : i \in 1..Len(fs)}

\* The last field of a parser input sent under the given lowercase name.
LastField(fs, key) == fs[Max({i \in 1..Len(fs) : fs[i].lower = key})]

\* C21: after a successful parse the header map has exactly the lowercased
\* names of the header lines sent, and under each the value of the last line
\* sent with that name (in any case), without the spaces and tabs around it.
C21_HeadersTrimmedLastWins ==
    (hpc = "parsed" /\ req.ok)
        => /\ DOMAIN req.headers = FieldKeys(origin.fields)
           /\ \A k \in DOMAIN req.headers :
                req.headers[k] = LastField(origin.fields, k).value

\* A request was parsed whose two header lines are padded, spell one name in
\* two cases and carry different values.
C21_Witness ==
    /\ hpc = "parsed"
    /\ req.ok
    /\ Len(origin.fields) = 2
    /\ origin.fields[1].lower = origin.fields[2].lower
    /\ origin.fields[1].name # origin.fields[2].name
    /\ origin.fields[1].value # origin.fields[2].value
    /\ origin.fields[2].pad # <<>>
    /\ req.headers[origin.fields[2].lower] = origin.fields[2].value

\* C22: a parse that fails leaves nothing of the input in the request: its
\* method, path and version are empty, and so are its headers and its body.
C22_NoPartialRequest ==
    (hpc = "parsed" /\ ~req.ok)
        => /\ req.method = <<>>
           /\ req.path = <<>>
           /\ req.version = <<>>
           /\ req.headers = EmptyHeaders
           /\ req.body = <<>>

\* A parser input declares a length: its last content-length line, in any
\* case, carries a number.
DeclaresLength(i) ==
    /\ ContentLengthKey \in FieldKeys(i.fields)
    /\ IsNatural(LastField(i.fields, ContentLengthKey).value)

DeclaredBy(i) == NaturalOf(LastField(i.fields, ContentLengthKey).value)

\* C23: a request line of three tokens parses, whatever follows it.  For POST
\* and PUT with a declared length L >= 0 and R bytes after the blank line the
\* body is the first min(L, R) of those bytes; for every other method the
\* body is empty.
C23_BodyOnlyForPostPut ==
    (hpc = "parsed" /\ ~origin.empty /\ Len(origin.tokens) = 3)
        => /\ req.ok
           /\ (origin.tokens[1] \in {POST, PUT} /\ DeclaresLength(origin))
                => req.body = SubSeq(origin.body, 1,
                                     Min({DeclaredBy(origin), Len(origin.body)}))
           /\ origin.tokens[1] \notin {POST, PUT} => req.body = <<>>

\* A PUT declaring more bytes than follow was parsed with all that follows
\* as its body.
C23_Witness ==
    /\ hpc = "parsed"
    /\ req.ok
    /\ req.method = PUT
    /\ DeclaresLength(origin)
    /\ 0 < Len(origin.body)
    /\ Len(origin.body) < DeclaredBy(origin)
    /\ req.body = origin.body

\* C24: a second shutdown, requested after the first has completed, returns
\* without failing and leaves the queue, the flag, the mutex, the workers and
\* the count of runs of every task as they were.
C24_ShutdownIdempotent ==
    [][again' # again
         => /\ again' = "returned"
            /\ UNCHANGED <<tasks, stop_flag, queue_mutex, condition, wpc, wtask,
                           runs, accepted>>]_vars

\* The threads inside a critical section on the queue and the flag: a worker
\* between its lock and the end of its block, a caller of enqueue inside its
\* block, the destructor inside its block.
InCriticalSection ==
    {WorkerThread(w) : w \in {v \in Workers : wpc[v] = "locked"}}
    \cup {ClientThread(c) : c \in {b \in Clients : cpc[b] = "locked"}}
    \cup (IF dpc = "locked" THEN {DtorThread} ELSE {})

\* C25: at most one thread is inside a critical section on the queue and the
\* flag, and it is the holder of queue_mutex; every step that changes the
\* queue or the flag is taken by the thread that holds queue_mutex and is
\* inside its critical section.
C25_MutexDiscipline ==
    /\ [](/\ Cardinality(InCriticalSection) <= 1
          /\ InCriticalSection \subseteq {queue_mutex}
          /\ (queue_mutex # NoOwner => InCriticalSection = {queue_mutex}))
    /\ [][(tasks' # tasks \/ stop_flag' # stop_flag)
            => /\ queue_mutex # NoOwner
               /\ queue_mutex \in InCriticalSection
               /\ queue_mutex' = NoOwner]_vars

\* A caller of enqueue is inside its critical section while a worker and the
\* destructor both stand at their lock.
C25_Witness ==
    /\ \E c \in Clients : InCriticalSection = {ClientThread(c)}
    /\ \E w \in Workers : wpc[w] = "start"
    /\ dpc = "lock"

\* Every worker is executing a task.
AllBusy == \A w \in Workers : wpc[w] = "running"

\* C26: a worker that executes a task does not hold queue_mutex; and a call
\* of enqueue, once begun, returns or throws although no task ever finishes,
\* its task having been pushed unless the pool was stopped.
C26_EnqueueNeverWaitsForTasks ==
    /\ [](\A w \in Workers : wpc[w] = "running" => queue_mutex # WorkerThread(w))
    /\ \A t \in TaskIds :
          (ctask[Acceptor] = t)
              ~> (cpc[Acceptor] = "idle" /\ (t \in accepted \/ stop_flag))

\* The acceptor is inside the critical section of enqueue with a third task
\* while both workers are executing the first two.
C26_Witness ==
    /\ AllBusy
    /\ cpc[Acceptor] = "locked"
    /\ runs = [t \in TaskIds |-> 0]

\* The workers whose thread function has not returned.
LiveWorkers == {w \in Workers : wpc[w] # "exited"}

\* C27: while stop_flag is false every one of the NumWorkers workers is
\* alive; and the step in which a worker exits is taken from inside its
\* critical section in a state where stop_flag is true and the queue empty.
C27_WorkersLiveUntilStop ==
    /\ [](~stop_flag => Cardinality(LiveWorkers) = NumWorkers)
    /\ [][\A w \in Workers :
            (wpc[w] # "exited" /\ wpc'[w] = "exited")
                => /\ stop_flag
                   /\ tasks = <<>>
                   /\ queue_mutex = WorkerThread(w)]_vars

\* After a task was executed, one worker has exited while another is still
\* alive.
C27_Witness ==
    /\ \E t \in TaskIds : runs[t] = 1
    /\ LiveWorkers # {}
    /\ LiveWorkers # Workers

\* C28: header_received, once true, stays true; content_length changes only
\* in the iteration that sets header_received; an iteration whose read
\* returned no byte, or after which the buffer holds the header and the
\* declared body, is the last one; and once the loop is left, nothing is
\* read and the framing variables keep their values.
C28_FramingMovesForward ==
    [][/\ header_received => header_received'
       /\ content_length' # content_length
            => (~header_received /\ header_received')
       /\ hpc = "reading"
            => /\ valread' <= 0 => hpc' # "reading"
               /\ (/\ header_received'
                   /\ content_length' >= 0
                   /\ Len(request_data') >=
                        HeaderEnd(request_data') + 4 + content_length')
                    => hpc' # "reading"
       /\ hpc # "reading"
            => UNCHANGED <<pos, valread, current_size, request_data,
                           header_received, content_length>>]_vars

\* The loop was left complete by a read issued after the header had been
\* found with a declared length above zero, and the request was dispatched.
C28_Witness ==
    /\ hpc = "done"
    /\ header_received
    /\ content_length > 0
    /\ valread > 0
    /\ current_size >= HeaderEnd(request_data) + 4
    /\ Len(request_data) = HeaderEnd(request_data) + 4 + content_length

\* C29: while the pool is not shut down, a queued task is eventually taken
\* by a worker; and in no state is the queue non-empty with every worker
\* blocked in the wait and no notify_one still to come.
C29_NoLostWakeup ==
    /\ \A t \in TaskIds :
          (Count(tasks, t) > 0) ~> (\E w \in Workers : wtask[w] = t)
    /\ []((tasks # <<>> /\ condition = Workers) => cpc[Acceptor] = "notify")

\* A task was pushed while every worker is blocked in the wait.
C29_Witness ==
    /\ tasks # <<>>
    /\ condition = Workers
    /\ ~stop_flag

\* C30: a task is pushed only while stop_flag is false and every worker is
\* alive; while a task is in the queue or held by a worker, some worker is
\* alive; and when the workers have all exited, and so when the destructor
\* has returned, every task pushed has been executed once, those whose call
\* of enqueue has not yet returned included.
C30_AcceptedNeverStranded ==
    /\ [][accepted' # accepted => (~stop_flag /\ LiveWorkers = Workers)]_vars
    /\ [](\A t \in accepted : runs[t] = 0 => LiveWorkers # {})
    /\ []((AllExited \/ dpc = "done") => \A t \in accepted : runs[t] = 1)

\* The destructor is joining the workers while a call of enqueue that was
\* accepted has not returned yet and its task is still in the queue.
C30_Witness ==
    /\ dpc = "join"
    /\ \E c \in Clients : cpc[c] = "notify" /\ Count(tasks, ctask[c]) > 0

\* C31: for a method other than POST and PUT content_length stays 0 whatever
\* Content-Length header the request carries, and the loop is left in the
\* iteration whose read brings in the header terminator; for POST and PUT
\* carrying a number, content_length is that number once the terminator has
\* been found.
C31_LengthOnlyForPostPut ==
    /\ origin.method \notin {POST, PUT}
         => /\ content_length = 0
            /\ HeaderEnd(request_data) # -1
                 => /\ hpc # "reading"
                    /\ current_size < HeaderEnd(request_data) + 4
    /\ (/\ origin.method \in {POST, PUT}
        /\ origin.length # NoLength
        /\ IsNatural(origin.length.value)
        /\ header_received)
         => content_length = NaturalOf(origin.length.value)

\* A GET that declares a body and sends none of it was read up to its
\* terminator and dispatched.
C31_Witness ==
    /\ hpc = "done"
    /\ handled
    /\ origin.method = GET
    /\ origin.length # NoLength
    /\ IsNatural(origin.length.value)
    /\ NaturalOf(origin.length.value) > 0
    /\ origin.body = <<>>
    /\ request_data = stream

\* The request is a POST or a PUT whose Content-Length value std::stoi
\* converts.
DeclaresInteger ==
    /\ origin.method \in {POST, PUT}
    /\ origin.length # NoLength
    /\ Stoi(origin.length.value).ok

\* C32: for a POST or PUT whose Content-Length converts to an integer, the
\* negative ones included, the body of the parsed request has at most that
\* many bytes (none when it is negative), and expected_total_size, compared
\* as the size_t it is, is not below body_start.
C32_LengthArithmeticSafe ==
    DeclaresInteger
        => /\ (handled /\ req.ok)
                => Len(req.body) <= Max({Stoi(origin.length.value).value, 0})
           /\ header_received
                => UnsignedGe(ExpectedTotalSize(request_data, content_length),
                              HeaderEnd(request_data) + TerminatorLength)

====
